---------------------------- MODULE Spec2Model ----------------------------
(***************************************************************************)
(* A model of graph_analysis.py: main() loads a graph, derives the edge    *)
(* signs from the edge colours, optionally checks balance and homophily,   *)
(* and optionally partitions the graph by repeatedly removing the edge of  *)
(* highest edge betweenness.                                               *)
(*                                                                         *)
(* The graph is the networkx Graph object of the program: a set of nodes,  *)
(* a dict of attributes per node and a dict of attributes per edge.  A     *)
(* Python dict is a function whose DOMAIN is its set of keys; an edge of   *)
(* the undirected graph is the set {u, v} of its two endpoints.            *)
(***************************************************************************)
EXTENDS Integers, Sequences, FiniteSets, TLC

VARIABLES graph, args, pc, out, removed, error, result

vars == <<graph, args, pc, out, removed, error, result>>

\* ------------------------------------------------------------------------
\* Bounds of the model.
\* ------------------------------------------------------------------------

\* Nodes and edges of the graphs main() is run on with coloured edges.
MainNodes == 3

MainEdges == 3

\* Nodes and edges of the graphs the partition loop is run on.
PartNodes == 4

PartEdges == 4

\* Nodes and edges of the graphs is_graph_balanced is called on.
BalNodes == 4

BalEdges == 6

\* Nodes of the graphs is_graph_balanced_by_node_attributes is called on.
AttrNodes == 3

\* ------------------------------------------------------------------------
\* Python dicts and small arithmetic.
\* ------------------------------------------------------------------------

EmptyDict == [k \in {} |-> 0]

\* dict.get(key, default)
Get(d, key, default) == IF key \in DOMAIN d THEN d[key] ELSE default

\* d[key] = value
Put(d, key, value) ==
    [k \in DOMAIN d \cup {key} |-> IF k = key THEN value ELSE d[k]]

\* A local variable: body, with its parameter bound to the value of value.
\* (The value is computed once, where an operator would compute its argument
\* again at each use.)
With(value, body(_)) == CHOOSE r \in {body(x) : x \in {value}} : TRUE

\* A dict written out key by key.
Materialised(d) == d @@ EmptyDict

Gcd[a \in Nat, b \in Nat] == IF b = 0 THEN a ELSE Gcd[b, a % b]

\* Exact rationals <<numerator, denominator>> stand for the program's floats.
Rat[n \in Nat, d \in Nat] ==
    IF n = 0 THEN <<0, 1>> ELSE <<n \div Gcd[n, d], d \div Gcd[n, d]>>

RAdd[x \in Nat \X Nat, y \in Nat \X Nat] == Rat[x[1] * y[2] + y[1] * x[2], x[2] * y[2]]

RMul[x \in Nat \X Nat, y \in Nat \X Nat] == Rat[x[1] * y[1], x[2] * y[2]]

RDiv[x \in Nat \X Nat, y \in Nat \X Nat] == Rat[x[1] * y[2], x[2] * y[1]]

RLeq(x, y) == x[1] * y[2] <= y[1] * x[2]

\* The sum of f[x] over the x in S.
RSum(S, f) ==
    LET sum[T \in SUBSET S] ==
            IF T = {} THEN <<0, 1>>
            ELSE With(CHOOSE x \in T : TRUE, LAMBDA x : RAdd[f[x], sum[T \ {x}]])
    IN  sum[S]

\* ------------------------------------------------------------------------
\* The graph object.
\* ------------------------------------------------------------------------

Pairs(V) == {e \in SUBSET V : Cardinality(e) = 2}

Edges(g) == DOMAIN g.edata

\* graph[v]: the neighbours of v
Nbrs(g, v) == {w \in g.nodes : {v, w} \in Edges(g)}

\* graph.remove_edge(u, v)
RemoveEdge(g, e) ==
    [g EXCEPT !.edata = [f \in Edges(g) \ {e} |-> g.edata[f]]]

\* Breadth-first layers from a frontier: <<{s}, nodes at distance 1, ...>>.
RECURSIVE Layers(_, _, _)
Layers(g, seen, frontier) ==
    IF frontier = {} THEN <<>>
    ELSE With(UNION {Nbrs(g, v) : v \in frontier} \ seen,
              LAMBDA next : <<frontier>> \o Layers(g, seen \cup next, next))

BFS(g, s) == Layers(g, {s}, {s})

Reachable(g, s) == LET L == BFS(g, s) IN UNION {L[i] : i \in DOMAIN L}

\* nx.connected_components(graph)
ConnectedComponents(g) == {Reachable(g, s) : s \in g.nodes}

NumComponents(g) == Cardinality(ConnectedComponents(g))

\* ------------------------------------------------------------------------
\* nx.edge_betweenness_centrality(graph): Brandes' algorithm.  From every
\* source s a breadth-first search finds the number of shortest paths sigma[v] to
\* each node and the dependencies are accumulated from the farthest layer
\* back; the sums are rescaled by 1 / (n (n - 1)).
\* ------------------------------------------------------------------------

\* sigma[v] for the nodes of layers 1..i: sigma[s] = 1, and sigma[w] is the
\* sum of sigma[v] over the predecessors v of w (its neighbours one layer up).
RECURSIVE SigmaUpTo(_, _, _)
SigmaUpTo(g, L, i) ==
    IF i = 1 THEN Materialised([v \in L[1] |-> 1])
    ELSE With(SigmaUpTo(g, L, i - 1),
              LAMBDA prev :
                prev @@ [w \in L[i] |->
                           LET P == L[i - 1] \cap Nbrs(g, w)
                           IN  RSum(P, [v \in P |-> <<prev[v], 1>>])[1]])

\* c = sigma[v] * (1 + delta[w]) / sigma[w]
Coeff(sigma, delta, v, w) ==
    RMul[<<sigma[v], 1>>, RDiv[RAdd[<<1, 1>>, delta[w]], <<sigma[w], 1>>]]

\* delta[v] for the nodes of layers i..Len(L), accumulated from the farthest
\* layer back: delta[v] is the sum of c over the nodes w that v precedes.
RECURSIVE DeltaFrom(_, _, _, _)
DeltaFrom(g, L, sigma, i) ==
    IF i = Len(L) THEN Materialised([v \in L[i] |-> <<0, 1>>])
    ELSE With(DeltaFrom(g, L, sigma, i + 1),
              LAMBDA later :
                later @@ [v \in L[i] |->
                            LET S == L[i + 1] \cap Nbrs(g, v)
                            IN  RSum(S, [w \in S |-> Coeff(sigma, later, v, w)])])

\* The index of the layer of L that holds v.
LayerOf(L, v) == CHOOSE i \in DOMAIN L : v \in L[i]

\* The coefficient c of edge e: of (v, w) with v a predecessor of w, and
\* nothing for an edge out of reach or inside one layer.
EdgeCoeff(L, sigma, delta, e) ==
    IF ~(e \subseteq DOMAIN sigma) THEN <<0, 1>>
    ELSE With(CHOOSE v \in e : \A x \in e : LayerOf(L, v) <= LayerOf(L, x),
              LAMBDA v :
                With(CHOOSE w \in e : w # v,
                     LAMBDA w :
                       IF LayerOf(L, w) = LayerOf(L, v) THEN <<0, 1>>
                       ELSE Coeff(sigma, delta, v, w)))

\* What the search from source s adds to each edge.
Accumulate(g, s) ==
    With(BFS(g, s),
         LAMBDA L :
           With(SigmaUpTo(g, L, Len(L)),
                LAMBDA sigma :
                  With(DeltaFrom(g, L, sigma, 1),
                       LAMBDA delta :
                         Materialised([e \in Edges(g) |-> EdgeCoeff(L, sigma, delta, e)]))))

EdgeBetweenness(g) ==
    With(Materialised([s \in g.nodes |-> Accumulate(g, s)]),
         LAMBDA from :
           With(Cardinality(g.nodes),
                LAMBDA n :
                  Materialised([e \in Edges(g) |->
                      RMul[RSum(g.nodes, [s \in g.nodes |-> from[s][e]]),
                           <<1, n * (n - 1)>>]])))

\* A max() that would return nothing for an empty dict instead of raising.
MaxRaisesNever(scores) == FALSE

\* max(edge_betweenness, key=edge_betweenness.get) raises ValueError on an
\* empty dict.
MaxRaises(scores) == DOMAIN scores = {}

\* The keys max() can return: the first key of maximal score in the dict's
\* order, which is the edge order of the loaded file; any key of maximal
\* score is first under some order.
MaxKeys(scores) ==
    {e \in DOMAIN scores : \A f \in DOMAIN scores : RLeq(scores[f], scores[e])}

\* ------------------------------------------------------------------------
\* is_graph_balanced(graph)
\* ------------------------------------------------------------------------

Range(p) == {p[i] : i \in DOMAIN p}

\* The simple paths that extend p through nodes after p[1] in node order.
RECURSIVE Extend(_, _)
Extend(g, p) ==
    {p} \cup UNION {Extend(g, Append(p, w)) :
                      w \in {x \in Nbrs(g, p[Len(p)]) : x > p[1] /\ x \notin Range(p)}}

\* nx.simple_cycles(graph) of an undirected graph: every simple cycle once,
\* as the list of its nodes (here from its least node, in one direction).
SimpleCycles(g) ==
    {p \in UNION {Extend(g, <<s>>) : s \in g.nodes} :
        /\ Len(p) >= 3
        /\ p[1] \in Nbrs(g, p[Len(p)])
        /\ p[2] < p[Len(p)]}

\* zip(cycle, cycle[1:] + cycle[:1])
CycleEdges(cycle) ==
    [i \in 1..Len(cycle) |-> {cycle[i], cycle[(i % Len(cycle)) + 1]}]

\* sum(1 for u, v in zip(...) if graph[u][v].get('sign', 1) == -1)
NegativeEdges(g, cycle) ==
    LET ce == CycleEdges(cycle)
    IN  Cardinality({i \in DOMAIN ce : Get(g.edata[ce[i]], "sign", 1) = -1})

\* The loop body without its test of the cycle's length.
CycleViolatesAnyLength(g, cycle) == NegativeEdges(g, cycle) % 2 = 1

\* The body of the for loop, for one cycle: TRUE when it returns False.
CycleViolates(g, cycle) ==
    /\ Len(cycle) % 2 = 1
    /\ NegativeEdges(g, cycle) % 2 = 1

\* The for loop over the generator's cycles, with its early return.
RECURSIVE BalancedLoop(_, _)
BalancedLoop(g, cycles) ==
    IF cycles = {} THEN TRUE
    ELSE LET cycle == CHOOSE c \in cycles : TRUE
         IN  IF CycleViolates(g, cycle) THEN FALSE
             ELSE BalancedLoop(g, cycles \ {cycle})

is_graph_balanced(g) == BalancedLoop(g, SimpleCycles(g))

\* ------------------------------------------------------------------------
\* is_graph_balanced_by_node_attributes(graph, attribute)
\* ------------------------------------------------------------------------

\* The loop body with an edge that has an unlabelled endpoint skipped.
EdgeFailsSkipsUnlabelled(g, attribute, e) ==
    LET u == CHOOSE u \in e : TRUE
        v == CHOOSE v \in e : v # u
    IN  IF attribute \in DOMAIN g.ndata[u] /\ attribute \in DOMAIN g.ndata[v]
        THEN IF g.ndata[u][attribute] = g.ndata[v][attribute]
             THEN Get(g.edata[e], "sign", 1) # 1
             ELSE Get(g.edata[e], "sign", 1) # -1
        ELSE FALSE

\* The body of the for loop, for one edge: TRUE when it returns False.
EdgeFails(g, attribute, e) ==
    LET u == CHOOSE u \in e : TRUE
        v == CHOOSE v \in e : v # u
    IN  IF attribute \in DOMAIN g.ndata[u] /\ attribute \in DOMAIN g.ndata[v]
        THEN IF g.ndata[u][attribute] = g.ndata[v][attribute]
             THEN Get(g.edata[e], "sign", 1) # 1
             ELSE Get(g.edata[e], "sign", 1) # -1
        ELSE TRUE

RECURSIVE AttributeLoop(_, _, _)
AttributeLoop(g, attribute, edges) ==
    IF edges = {} THEN TRUE
    ELSE LET e == CHOOSE e \in edges : TRUE
         IN  IF EdgeFails(g, attribute, e) THEN FALSE
             ELSE AttributeLoop(g, attribute, edges \ {e})

is_graph_balanced_by_node_attributes(g, attribute) ==
    AttributeLoop(g, attribute, Edges(g))

\* ------------------------------------------------------------------------
\* main(): the state after nx.read_gml and the parsing of sys.argv.
\* ------------------------------------------------------------------------

\* The graphs on nodes 1..n with at most maxEdges edges, node attribute
\* dicts from nodeDicts and edge attribute dicts from edgeDicts.
Graphs(n, maxEdges, nodeDicts, edgeDicts) ==
    UNION {[nodes : {1..n}, ndata : [1..n -> nodeDicts], edata : [E -> edgeDicts]] :
             E \in {X \in SUBSET Pairs(1..n) : Cardinality(X) <= maxEdges}}

ColourDicts == {EmptyDict, [color |-> "r"], [color |-> "b"]}

\* components = 0 stands for a run without --components (None, or 0: both
\* are false in "if components:").
Arguments(flags, n) ==
    [verify_homophily : flags, verify_balanced_graph : flags, components : 0..(n + 1)]

Start(g, a) ==
    /\ graph = g
    /\ args = a
    /\ pc = "derive_signs"
    /\ out = <<>>
    /\ removed = <<>>
    /\ error = ""
    /\ result = "unset"

\* Runs on small graphs with coloured edges and every combination of flags.
Init ==
    \E g \in Graphs(MainNodes, MainEdges, {EmptyDict}, ColourDicts),
       a \in Arguments(BOOLEAN, MainNodes) : Start(g, a)

\* Runs of the partition alone, on larger graphs without edge colours.
InitPartition ==
    \E g \in Graphs(PartNodes, PartEdges, {EmptyDict}, {EmptyDict}),
       a \in Arguments({FALSE}, PartNodes) : Start(g, a)

\* The derivation with the colour compared to 'red' instead of 'r'.
SignOfRedWord(data) == IF Get(data, "color", "None") = "red" THEN -1 ELSE 1

\* data['sign'] = -1 if data.get('color') == 'r' else 1
SignOf(data) == IF Get(data, "color", "None") = "r" THEN -1 ELSE 1

\* Lines 105-107: the sign of every edge is set from its colour.
DeriveSigns ==
    /\ pc = "derive_signs"
    /\ graph' = [graph EXCEPT !.edata =
                    [e \in Edges(graph) |-> Put(graph.edata[e], "sign", SignOf(graph.edata[e]))]]
    /\ pc' = "verify_balance"
    /\ UNCHANGED <<args, out, removed, error, result>>

PyBool(b) == IF b THEN "True" ELSE "False"

\* The balance check with its verdict also stored on the nodes of the graph.
VerifyBalanceAnnotates ==
    /\ pc = "verify_balance"
    /\ IF args.verify_balanced_graph
       THEN LET is_balanced == is_graph_balanced(graph)
            IN  /\ result' = PyBool(is_balanced)
                /\ out' = Append(out, IF is_balanced THEN "The graph is balanced."
                                      ELSE "The graph is not balanced.")
                /\ graph' = [graph EXCEPT !.ndata =
                                [v \in graph.nodes |->
                                    Put(graph.ndata[v], "balanced", PyBool(is_balanced))]]
       ELSE UNCHANGED <<result, out, graph>>
    /\ pc' = "verify_homophily"
    /\ UNCHANGED <<args, removed, error>>

\* Lines 117-122.
VerifyBalance ==
    /\ pc = "verify_balance"
    /\ IF args.verify_balanced_graph
       THEN LET is_balanced == is_graph_balanced(graph)
            IN  /\ result' = PyBool(is_balanced)
                /\ out' = Append(out, IF is_balanced THEN "The graph is balanced."
                                      ELSE "The graph is not balanced.")
       ELSE UNCHANGED <<result, out>>
    /\ pc' = "verify_homophily"
    /\ UNCHANGED <<graph, args, removed, error>>

\* The dicts color_map can be: a colour for some of the nodes.
ColorMaps(V) == UNION {[D -> {"x", "y"}] : D \in SUBSET V}

\* What reading homophily.gml gives: no file, a node without a colour, or
\* the colours of its nodes.
HomophilyFiles(V) ==
    {[file |-> "missing", color_map |-> EmptyDict], [file |-> "nocolor", color_map |-> EmptyDict]}
        \cup [file : {"ok"}, color_map : ColorMaps(V)]

\* for u, v in graph.edges(): the edges counted as same colour.
SameColorEdges(g, color_map) ==
    {e \in Edges(g) : \A u, v \in e : color_map[u] = color_map[v]}

\* Lines 124-144.  homophily.gml is read here: it is missing, or has a node
\* without a colour (KeyError in the dict comprehension), or gives color_map.
\* color_map[u] raises KeyError for an edge with a node that is not in it.
VerifyHomophily ==
    /\ pc = "verify_homophily"
    /\ IF args.verify_homophily
       THEN \E read \in HomophilyFiles(graph.nodes) :
              LET file == read.file
                  color_map == read.color_map
              IN
              CASE file = "missing" ->
                     /\ out' = Append(out, "Error: homophily.gml file not found.")
                     /\ pc' = "components"
                     /\ UNCHANGED error
                [] file = "nocolor" ->
                     /\ error' = "KeyError"
                     /\ pc' = "crashed"
                     /\ UNCHANGED out
                [] file = "ok" /\ UNION Edges(graph) \subseteq DOMAIN color_map ->
                     LET same_color_edges == Cardinality(SameColorEdges(graph, color_map))
                         different_color_edges == Cardinality(Edges(graph)) - same_color_edges
                         total_edges == same_color_edges + different_color_edges
                     IN  /\ out' = IF total_edges > 0 THEN out
                                   ELSE Append(out, "Cannot determine homophily.")
                         /\ pc' = "components"
                         /\ UNCHANGED error
                [] OTHER ->
                     /\ error' = "KeyError"
                     /\ pc' = "crashed"
                     /\ UNCHANGED out
       ELSE /\ pc' = "components"
            /\ UNCHANGED <<out, error>>
    /\ UNCHANGED <<graph, args, removed, result>>

\* Line 146: if components:
EnterPartition ==
    /\ pc = "components"
    /\ pc' = IF args.components # 0 THEN "loop" ELSE "done"
    /\ UNCHANGED <<graph, args, out, removed, error, result>>

\* The loop with the scores of the graph as it was before the first removal
\* used again in every iteration.
PartitionIterStale ==
    /\ pc = "loop"
    /\ \E edge_betweenness \in
            {[e \in Edges(graph) |->
                EdgeBetweenness([graph EXCEPT !.edata =
                    [f \in Edges(graph) \cup Range(removed) |-> EmptyDict]])[e]]} :
          IF MaxRaises(edge_betweenness)
          THEN /\ error' = "ValueError"
               /\ pc' = "crashed"
               /\ UNCHANGED <<graph, removed>>
          ELSE \E highest_edge \in MaxKeys(edge_betweenness) :
                 \E num_components \in {NumComponents(RemoveEdge(graph, highest_edge))} :
                    /\ graph' = RemoveEdge(graph, highest_edge)
                    /\ removed' = Append(removed, highest_edge)
                    /\ pc' = IF num_components >= args.components THEN "done" ELSE "loop"
                    /\ UNCHANGED error
    /\ UNCHANGED <<args, out, result>>

\* Lines 147-154: one iteration of the while True loop.
PartitionIter ==
    /\ pc = "loop"
    /\ \E edge_betweenness \in {EdgeBetweenness(graph)} :
          IF MaxRaises(edge_betweenness)
          THEN /\ error' = "ValueError"
               /\ pc' = "crashed"
               /\ UNCHANGED <<graph, removed>>
          ELSE \E highest_edge \in MaxKeys(edge_betweenness) :
                 \E num_components \in {NumComponents(RemoveEdge(graph, highest_edge))} :
                    /\ graph' = RemoveEdge(graph, highest_edge)
                    /\ removed' = Append(removed, highest_edge)
                    /\ pc' = IF num_components >= args.components THEN "done" ELSE "loop"
                    /\ UNCHANGED error
    /\ UNCHANGED <<args, out, result>>

Next ==
    \/ DeriveSigns
    \/ VerifyBalance
    \/ VerifyHomophily
    \/ EnterPartition
    \/ PartitionIter

Spec == Init /\ [][Next]_vars

SpecPartition == InitPartition /\ [][Next]_vars

\* main() is one sequential thread: it takes its next step whenever it has one.
FairSpecPartition == InitPartition /\ [][Next]_vars /\ WF_vars(Next)

\* ------------------------------------------------------------------------
\* Calls of the two balance functions on graphs whose edges may lack a sign
\* and whose nodes may lack the attribute.
\* ------------------------------------------------------------------------

SignDicts == {EmptyDict, [sign |-> 1], [sign |-> -1]}

GroupDicts == {EmptyDict, [group |-> "a"], [group |-> "b"]}

Call(g, a) ==
    /\ graph = g
    /\ args = a
    /\ pc = "call"
    /\ out = <<>>
    /\ removed = <<>>
    /\ error = ""
    /\ result = "unset"

InitBalanced ==
    \E g \in Graphs(BalNodes, BalEdges, {EmptyDict}, SignDicts) : Call(g, EmptyDict)

InitAttributes ==
    \E g \in Graphs(AttrNodes, Cardinality(Pairs(1..AttrNodes)), GroupDicts, SignDicts) :
        Call(g, [attribute |-> "group"])

\* is_balanced = is_graph_balanced(graph)
CallBalanced ==
    /\ pc = "call"
    /\ result' = PyBool(is_graph_balanced(graph))
    /\ pc' = "returned"
    /\ UNCHANGED <<graph, args, out, removed, error>>

CallBalancedByAttributes ==
    /\ pc = "call"
    /\ result' = PyBool(is_graph_balanced_by_node_attributes(graph, args.attribute))
    /\ pc' = "returned"
    /\ UNCHANGED <<graph, args, out, removed, error>>

SpecBalanced == InitBalanced /\ [][CallBalanced]_vars

SpecAttributes == InitAttributes /\ [][CallBalancedByAttributes]_vars

\* ------------------------------------------------------------------------
\* Properties.
\* ------------------------------------------------------------------------

\* The graph as it was when the partition was requested: the removed edges
\* put back.
Restored ==
    [graph EXCEPT !.edata = [e \in Edges(graph) \cup Range(removed) |-> EmptyDict]]

Halted == pc \in {"done", "crashed"}

\* C1: the partition loop halts.  It reaches "done" only with at least
\* args.components components; an iteration that finds no edge left ends the
\* run with an error (ValueError) instead of looping, and the error comes
\* only then.
C1_PartitionHalts ==
    /\ <>Halted
    /\ [](pc = "done" /\ args.components # 0 => NumComponents(graph) >= args.components)
    /\ [](error = "ValueError" => Edges(graph) = {})
    /\ [][pc = "loop" /\ Edges(graph) = {} => pc' = "crashed" /\ error' = "ValueError"]_vars

C1_Witness ==
    /\ pc = "crashed"
    /\ error = "ValueError"
    /\ removed # <<>>
    /\ args.components > Cardinality(graph.nodes)

\* C2: when the graph already has at least args.components components as the
\* partition is requested, no edge is removed.
C2_NoOpWhenSatisfied ==
    (/\ args.components # 0
     /\ pc \in {"loop", "done", "crashed"}
     /\ NumComponents(Restored) >= args.components)
        => removed = <<>>

\* C3: an edge is removed only while the component count is below the
\* target, and the loop ends normally only with the count at the target.
C3_StopsAtFirstCrossing ==
    /\ [][pc = "loop" /\ removed' # removed
            => NumComponents(graph) < args.components]_vars
    /\ [](pc = "done" /\ args.components # 0 => NumComponents(graph) >= args.components)

AllRequested ==
    /\ args.verify_balanced_graph
    /\ args.verify_homophily
    /\ args.components # 0

HomophilyEvaluated == pc \in {"components", "loop", "done"} \/ error = "KeyError"

\* C4: with the partition and both verifications requested, every edge
\* removal precedes the balance check, which precedes the homophily
\* evaluation.
C4_PartitionThenBalanceThenHomophily ==
    [][AllRequested =>
         /\ (removed' # removed => result = "unset" /\ ~HomophilyEvaluated)
         /\ (result' # result => ~HomophilyEvaluated)]_vars

\* A set of edges that is one simple cycle: connected, every node on it on
\* exactly two of its edges.
IsSimpleCycle(C) ==
    /\ Cardinality(C) >= 3
    /\ \A v \in UNION C : Cardinality({e \in C : v \in e}) = 2
    /\ LET h == [nodes |-> UNION C, edata |-> [e \in C |-> EmptyDict]]
       IN  \A v \in UNION C : Reachable(h, v) = UNION C

IsNegative(e) == "sign" \in DOMAIN graph.edata[e] /\ graph.edata[e].sign = -1

OddNegatives(C) == Cardinality({e \in C : IsNegative(e)}) % 2 = 1

\* No cycle of odd length: the nodes split in two sides with every edge
\* across.
NoOddCycle ==
    \E side \in SUBSET graph.nodes : \A e \in Edges(graph) : Cardinality(e \cap side) = 1

\* C5: is_graph_balanced returns False exactly when some simple cycle of odd
\* length has an odd number of edges of sign -1; on a graph without a cycle
\* of odd length it returns True.
C5_BalancedIffNoOddCycleOddNegative ==
    pc = "returned" =>
        /\ result = "False" <=>
             \E C \in SUBSET Edges(graph) :
                IsSimpleCycle(C) /\ Cardinality(C) % 2 = 1 /\ OddNegatives(C)
        /\ NoOddCycle => result = "True"

\* True is returned on a graph with a cycle of even length that has an odd
\* number of negative edges.
C5_Witness ==
    /\ pc = "returned"
    /\ result = "True"
    /\ \E C \in SUBSET Edges(graph) :
          IsSimpleCycle(C) /\ Cardinality(C) % 2 = 0 /\ OddNegatives(C)

HasAttribute(v) == args.attribute \in DOMAIN graph.ndata[v]

\* The sign the attribute values of the endpoints of e require.
RequiredSign(e) ==
    IF \A u, v \in e : graph.ndata[u][args.attribute] = graph.ndata[v][args.attribute]
    THEN 1 ELSE -1

SignOrPlus(e) == IF "sign" \in DOMAIN graph.edata[e] THEN graph.edata[e].sign ELSE 1

\* C6: is_graph_balanced_by_node_attributes returns True exactly when on
\* every edge both endpoints carry the attribute and the sign of the edge (+1
\* when it has none) is +1 for equal attribute values and -1 for different
\* ones.
C6_BalancedByAttributesIffEveryEdgeConsistent ==
    pc = "returned" =>
        (result = "True" <=>
            \A e \in Edges(graph) :
                /\ \A v \in e : HasAttribute(v)
                /\ SignOrPlus(e) = RequiredSign(e))

C6_Witness ==
    /\ pc = "returned"
    /\ result = "True"
    /\ \E e \in Edges(graph) : "sign" \notin DOMAIN graph.edata[e]
    /\ \E e \in Edges(graph) : IsNegative(e)

IsRed(data) == "color" \in DOMAIN data /\ data.color = "r"

\* C7: after the sign derivation every edge of the graph has sign -1 if its
\* colour is "r" and sign +1 otherwise, and no later step changes the
\* attributes of an edge that stays in the graph (or adds an edge).
C7_SignFollowsColour ==
    /\ [](pc # "derive_signs" =>
            \A e \in Edges(graph) :
                /\ "sign" \in DOMAIN graph.edata[e]
                /\ graph.edata[e].sign = IF IsRed(graph.edata[e]) THEN -1 ELSE 1)
    /\ [][pc # "derive_signs" =>
            \A e \in Edges(graph') :
                e \in Edges(graph) /\ graph'.edata[e] = graph.edata[e]]_vars

C7_Witness ==
    /\ pc = "done"
    /\ removed # <<>>
    /\ \E e \in Edges(graph) : IsRed(graph.edata[e])
    /\ \E e \in Edges(graph) : "color" \notin DOMAIN graph.edata[e]

\* The simple paths that extend p.
RECURSIVE PathsFrom(_, _)
PathsFrom(g, p) ==
    {p} \cup UNION {PathsFrom(g, Append(p, w)) : w \in Nbrs(g, p[Len(p)]) \ Range(p)}

\* The shortest paths between the two nodes of pair.
ShortestPaths(g, pair) ==
    LET s == CHOOSE s \in pair : TRUE
        P == {p \in PathsFrom(g, <<s>>) : p[Len(p)] \in pair \ {s}}
    IN  {p \in P : \A q \in P : Len(p) <= Len(q)}

Through(p, e) == \E i \in 1..(Len(p) - 1) : {p[i], p[i + 1]} = e

\* Edge betweenness by its definition: over the pairs of connected nodes,
\* the fraction of the pair's shortest paths that run through e.
PathScore(paths, e) ==
    RSum(paths, [P \in paths |->
                    Rat[Cardinality({p \in P : Through(p, e)}), Cardinality(P)]])

PathSets(g) == {ShortestPaths(g, pair) : pair \in Pairs(g.nodes)} \ {{}}

IsHighest(g, e) ==
    LET paths == PathSets(g)
        score == PathScore(paths, e)
    IN  \A f \in Edges(g) : RLeq(PathScore(paths, f), score)

\* C8: every iteration of the partition loop removes exactly one edge, one
\* whose edge betweenness in the graph as it is before the removal is
\* maximal among the edges of that graph.
C8_RemovesHighestOfCurrentGraph ==
    [][pc = "loop" /\ graph' # graph =>
         \E e \in Edges(graph) :
            /\ Edges(graph') = Edges(graph) \ {e}
            /\ removed' = Append(removed, e)
            /\ IsHighest(graph, e)]_vars

\* A second removal of an edge that was not of maximal betweenness among the
\* edges left, by the scores of the graph before the first removal.
C8_Witness ==
    /\ Len(removed) >= 2
    /\ LET g0 == Restored
           g1 == RemoveEdge(g0, removed[1])
           paths == PathSets(g0)
       IN  \E f \in Edges(g1) :
              ~RLeq(PathScore(paths, f), PathScore(paths, removed[2]))

\* C9: the balance check and the homophily evaluation leave the graph as it
\* is, whatever their outcome; after the sign derivation the graph changes
\* only in the partition loop, and only by losing an edge.
C9_OnlyPartitionChangesGraph ==
    [][/\ pc \in {"verify_balance", "verify_homophily"} => graph' = graph
       /\ (graph' # graph /\ pc # "derive_signs") =>
             /\ pc = "loop"
             /\ \E e \in Edges(graph) : graph' = RemoveEdge(graph, e)]_vars

\* The balance check answered False and the homophily evaluation failed on
\* a node without reference colour.
C9_Witness ==
    /\ result = "False"
    /\ error = "KeyError"

\* C10: the component count never decreases from one iteration to the next,
\* and it has increased when the loop ends.
C10_Monotonic ==
    /\ [][NumComponents(graph') >= NumComponents(graph)]_vars
    /\ [](pc = "done" /\ removed # <<>> => NumComponents(graph) > NumComponents(Restored))

=============================================================================
